---- MODULE Spec2Model ----
(***************************************************************************)
(* A model of arsync (src/arsync.py): configuration resolution             *)
(* (ArsyncConfig), command building and job execution (ArsyncRunner) and   *)
(* the command line entry point (main).                                    *)
(*                                                                         *)
(* A Python str is a sequence of symbols.  A symbol is a one-character     *)
(* TLA+ string ("/", "~", ":", "$", ...) or an opaque literal chunk that   *)
(* holds none of the characters the program inspects ("rsync", "-avPh").   *)
(***************************************************************************)
EXTENDS Integers, Sequences, FiniteSets, TLC

VARIABLES
    path,         \* SpecNormalize: the path given to the path expansion
    nhist,        \* SpecNormalize: results of successive path expansions
    text,         \* SpecSubstitute: the text given to substitute_variables
    subst,        \* SpecSubstitute: [done, out] the returned text
    config,       \* ArsyncConfig.config: the parsed configuration document
    variables,    \* ArsyncConfig.variables: name -> value
    resolved,     \* SpecResolve: [done, name, r] result of get_sync_config
    file,         \* the configuration file on disk, as yaml.safe_load reads it
    args,         \* the parsed command line: sync_names, list, no_parallel, dry_run
    keyfile,      \* whether ~/.ssh/id_rsa exists
    proc,         \* stand-in for the external process: job name -> outcome
    pc,           \* where main is
    idx,          \* the loop index of run_syncs / run_sync_parallel
    run_names,    \* the sync_names given to run_syncs
    mode,         \* "none", or how run_syncs runs the jobs: "threads", "serial"
    task,         \* per requested position: [pc, res] of its run_sync call
    results,      \* the results dict of run_syncs / run_sync_parallel
    writes,       \* the writes to results so far: <<position, key>>
    preview,      \* what the dry run printed, per requested position
    exitcode      \* the value main returned

strvars == <<path, nhist, text, subst, config, variables, resolved>>

runvars == <<file, args, keyfile, proc, pc, idx, run_names, mode, task, results,
             writes, preview, exitcode>>

vars == <<strvars, runvars>>

----------------------------------------------------------------------------
(* Bounds of the model. *)

MaxPathPieces == 4
MaxTextPieces == 5
MaxNames == 2

----------------------------------------------------------------------------
(* Python str primitives. *)

StartsWith(s, p) == Len(s) >= Len(p) /\ SubSeq(s, 1, Len(p)) = p

Drop(s, n) == SubSeq(s, n + 1, Len(s))

\* sub in s
Contains(s, sub) ==
    \E i \in 1..(Len(s) - Len(sub) + 1) : SubSeq(s, i, i + Len(sub) - 1) = sub

\* s.replace(old, new): non-overlapping occurrences, left to right
RECURSIVE Replace(_, _, _)
Replace(s, old, new) ==
    IF Len(s) < Len(old) THEN s
    ELSE IF StartsWith(s, old) THEN new \o Replace(Drop(s, Len(old)), old, new)
    ELSE <<Head(s)>> \o Replace(Tail(s), old, new)

\* s.split(sep) for a one-symbol separator
RECURSIVE SplitFrom(_, _, _)
SplitFrom(s, sep, cur) ==
    IF s = <<>> THEN <<cur>>
    ELSE IF Head(s) = sep THEN <<cur>> \o SplitFrom(Tail(s), sep, <<>>)
    ELSE SplitFrom(Tail(s), sep, Append(cur, Head(s)))

Split(s, sep) == SplitFrom(s, sep, <<>>)

\* sep.join(parts)
RECURSIVE Join(_, _)
Join(parts, sep) ==
    IF parts = <<>> THEN <<>>
    ELSE IF Len(parts) = 1 THEN parts[1]
    ELSE parts[1] \o sep \o Join(Tail(parts), sep)

\* s.rstrip(c)
RECURSIVE RStrip(_, _)
RStrip(s, c) ==
    IF s # <<>> /\ s[Len(s)] = c THEN RStrip(SubSeq(s, 1, Len(s) - 1), c) ELSE s

\* s.strip(chars)
RECURSIVE LStripSet(_, _)
LStripSet(s, cs) == IF s # <<>> /\ Head(s) \in cs THEN LStripSet(Tail(s), cs) ELSE s

RECURSIVE RStripSet(_, _)
RStripSet(s, cs) ==
    IF s # <<>> /\ s[Len(s)] \in cs THEN RStripSet(SubSeq(s, 1, Len(s) - 1), cs) ELSE s

StripSet(s, cs) == RStripSet(LStripSet(s, cs), cs)

\* The words over a set of pieces: up to n pieces, concatenated.
RECURSIVE Words(_, _)
Words(pieces, n) ==
    IF n = 0 THEN {<<>>}
    ELSE LET prev == Words(pieces, n - 1)
         IN  prev \cup {w \o p : w \in prev, p \in pieces}

----------------------------------------------------------------------------
(* The environment of the process. *)

\* $HOME, as os.path.expanduser reads it
Home == <<"/", "h">>

\* os.getcwd()
Cwd == <<"/", "w">>

----------------------------------------------------------------------------
(* os.path: expanduser and abspath, as posixpath computes them. *)

\* os.path.expanduser(p) for p starting with "~/": the home directory without
\* its trailing slashes, followed by the rest of p from its first "/".
expanduser(p) ==
    IF ~StartsWith(p, <<"~">>) THEN p
    ELSE LET r == RStrip(Home, "/") \o Drop(p, 1)
         IN  IF r = <<>> THEN <<"/">> ELSE r

\* the loop of posixpath.normpath over the components
RECURSIVE NormComps(_, _, _)
NormComps(comps, initial_slashes, new_comps) ==
    IF comps = <<>> THEN new_comps
    ELSE LET comp == Head(comps)
             rest == Tail(comps)
         IN  IF comp = <<>> \/ comp = <<".">>
             THEN NormComps(rest, initial_slashes, new_comps)
             ELSE IF \/ comp # <<".", ".">>
                     \/ (initial_slashes = 0 /\ new_comps = <<>>)
                     \/ (new_comps # <<>> /\ new_comps[Len(new_comps)] = <<".", ".">>)
             THEN NormComps(rest, initial_slashes, Append(new_comps, comp))
             ELSE IF new_comps # <<>>
             THEN NormComps(rest, initial_slashes,
                            SubSeq(new_comps, 1, Len(new_comps) - 1))
             ELSE NormComps(rest, initial_slashes, new_comps)

normpath(p) ==
    IF p = <<>> THEN <<".">>
    ELSE LET initial_slashes ==
                 IF ~StartsWith(p, <<"/">>) THEN 0
                 ELSE IF StartsWith(p, <<"/", "/">>) /\ ~StartsWith(p, <<"/", "/", "/">>)
                 THEN 2 ELSE 1
             comps == NormComps(Split(p, "/"), initial_slashes, <<>>)
             lead == IF initial_slashes = 2 THEN <<"/", "/">>
                     ELSE IF initial_slashes = 1 THEN <<"/">> ELSE <<>>
             r == lead \o Join(comps, <<"/">>)
         IN  IF r = <<>> THEN <<".">> ELSE r

\* os.path.join(Cwd, p) for a relative p
joincwd(p) ==
    IF Cwd # <<>> /\ Cwd[Len(Cwd)] = "/" THEN Cwd \o p ELSE Cwd \o <<"/">> \o p

abspath(p) == normpath(IF StartsWith(p, <<"/">>) THEN p ELSE joincwd(p))

----------------------------------------------------------------------------
(* ArsyncConfig *)

\* get_sync_config, the expansion of one local path (the same code for src
\* and for dest): tilde expansion, else repair of "/~/", then abspath.
expand_path(p) ==
    LET q == IF StartsWith(p, <<"~", "/">>) THEN expanduser(p)
             ELSE IF StartsWith(p, <<"/">>) /\ Contains(p, <<"/", "~", "/">>)
             THEN Replace(p, <<"/", "~", "/">>, <<"/">>)
             ELSE p
    IN  abspath(q)

\* re.sub(r'\$\{([^}]+)\}', replace_var, text): the end (index of "}") of the
\* match that starts at index i, or 0 when none starts there.
RECURSIVE FirstClose(_, _)
FirstClose(s, j) ==
    IF j > Len(s) THEN 0 ELSE IF s[j] = "}" THEN j ELSE FirstClose(s, j + 1)

MatchEnd(s, i) ==
    IF i + 1 <= Len(s) /\ s[i] = "$" /\ s[i + 1] = "{"
    THEN LET j == FirstClose(s, i + 2) IN IF j >= i + 3 THEN j ELSE 0
    ELSE 0

\* replace_var with the test inverted: a defined variable keeps its token
replace_var_inverted(var_name, token) ==
    IF var_name \notin DOMAIN variables THEN <<>> ELSE token

\* replace_var: the value of a defined variable, else the token itself
replace_var(var_name, token) ==
    IF var_name \in DOMAIN variables THEN variables[var_name] ELSE token

RECURSIVE SubFrom(_, _)
SubFrom(s, i) ==
    IF i > Len(s) THEN <<>>
    ELSE LET j == MatchEnd(s, i)
         IN  IF j = 0 THEN <<s[i]>> \o SubFrom(s, i + 1)
             ELSE replace_var(SubSeq(s, i + 2, j - 1), SubSeq(s, i, j)) \o SubFrom(s, j + 1)

substitute_variables(t) == SubFrom(t, 1)

\* a raised exception, or a returned value
Raise(kind, message) == [exc |-> kind, msg |-> message]

NoException == "none"

\* get_sync_config with the two passes in the other order: substitution
\* first, then the expansion of what is then local
get_sync_config_substitute_first(sync_name) ==
    LET sync == config["sync"]
    IN  IF sync.null \/ sync_name \notin DOMAIN sync.jobs
        THEN Raise("ValueError", <<>>) @@ [val |-> <<>>]
        ELSE LET raw == sync.jobs[sync_name]
                 substituted == [f \in DOMAIN raw |-> substitute_variables(raw[f])]
                 expanded == [f \in DOMAIN substituted |->
                                 IF ~Contains(substituted[f], <<":">>)
                                 THEN expand_path(substituted[f]) ELSE substituted[f]]
             IN  [exc |-> NoException, msg |-> <<>>, val |-> expanded]

\* get_sync_config(sync_name): the job's declaration with each local path
\* expanded, then every path substituted; raises for an unknown name (and
\* for a sync section that is null).
get_sync_config(sync_name) ==
    LET sync == config["sync"]
    IN  IF sync.null
        THEN Raise("TypeError", <<"argument of type 'NoneType' is not iterable">>)
             @@ [val |-> <<>>]
        ELSE IF sync_name \notin DOMAIN sync.jobs
        THEN Raise("ValueError",
                   <<"Sync '">> \o sync_name \o <<"' not found. Available syncs: ">>
                       \o Join(sync.keys, <<", ">>))
             @@ [val |-> <<>>]
        ELSE LET raw == sync.jobs[sync_name]
                 expanded == [f \in DOMAIN raw |->
                                 IF ~Contains(raw[f], <<":">>)
                                 THEN expand_path(raw[f]) ELSE raw[f]]
                 substituted == [f \in DOMAIN expanded |->
                                    substitute_variables(expanded[f])]
             IN  [exc |-> NoException, msg |-> <<>>, val |-> substituted]

\* key, value = var_def.split('=', 1); key.strip() -> value.strip().strip('"\'')
RECURSIVE IndexOf(_, _, _)
IndexOf(s, c, i) == IF i > Len(s) THEN 0 ELSE IF s[i] = c THEN i ELSE IndexOf(s, c, i + 1)

RECURSIVE ParseVariables(_, _)
ParseVariables(defs, acc) ==
    IF defs = <<>> THEN acc
    ELSE LET var_def == Head(defs)
             eq == IndexOf(var_def, "=", 1)
         IN  IF eq = 0 THEN ParseVariables(Tail(defs), acc)
             ELSE LET key == StripSet(SubSeq(var_def, 1, eq - 1), {" "})
                      value == StripSet(StripSet(Drop(var_def, eq), {" "}), {"\"", "'"})
                  IN  ParseVariables(Tail(defs),
                          [n \in DOMAIN acc \cup {key} |->
                              IF n = key THEN value ELSE acc[n]])

\* load_config: what ArsyncConfig(config_path) raises, or the config and the
\* variables it leaves in the object
load_config ==
    IF file.kind = "notfound"
    THEN Raise("FileNotFoundError", <<"Configuration file not found">>)
    ELSE IF file.kind = "badyaml"
    THEN Raise("ValueError", <<"Invalid YAML in config file">>)
    ELSE IF file.kind = "nondict"
    THEN Raise("TypeError", <<"argument of type 'NoneType' is not iterable">>)
    ELSE IF "sync" \notin DOMAIN file.doc
    THEN Raise("ValueError", <<"Config file must contain a 'sync' section">>)
    ELSE [exc |-> NoException, msg |-> <<>>,
          config |-> file.doc,
          variables |-> IF "variables" \in DOMAIN file.doc
                        THEN ParseVariables(file.doc["variables"], <<>>)
                        ELSE <<>>]

\* get_rsync_flags: config.rsync_flags, else the default
get_rsync_flags ==
    IF "config" \in DOMAIN config /\ "rsync_flags" \in DOMAIN config["config"]
    THEN config["config"]["rsync_flags"]
    ELSE <<"-avPh">>

\* list_syncs: the keys of the sync section, in declaration order; raises
\* when the section is null
list_syncs ==
    IF config["sync"].null
    THEN Raise("AttributeError", <<"'NoneType' object has no attribute 'keys'">>)
         @@ [val |-> <<>>]
    ELSE [exc |-> NoException, msg |-> <<>>, val |-> config["sync"].keys]

----------------------------------------------------------------------------
(* ArsyncRunner *)

\* getpass.getpass: the secret the operator types
Password == <<"secret">>

\* stand-ins for what the external process prints
StdoutOf(sync_name) == <<"sent ">> \o sync_name

StderrOf(sync_name) == <<"rsync error: ">> \o sync_name

\* is_remote_path looking for the "://" of a URL instead of ":"
is_remote_path_url(p) == Contains(p, <<":", "/", "/">>)

is_remote_path(p) == Contains(p, <<":">>)

\* build_rsync_command: the command, and the host the password was asked for
\* (prompt: no or one host); raises KeyError for a missing src or dest
build_rsync_command(sync_config, sync_name, dry_run) ==
    IF "src" \notin DOMAIN sync_config
    THEN Raise("KeyError", <<"'src'">>) @@ [cmd |-> <<>>, prompt |-> <<>>]
    ELSE IF "dest" \notin DOMAIN sync_config
    THEN Raise("KeyError", <<"'dest'">>) @@ [cmd |-> <<>>, prompt |-> <<>>]
    ELSE LET src == sync_config["src"]
             dest == sync_config["dest"]
             flags == get_rsync_flags
             host == Split(src, ":")[1]
             plain == [exc |-> NoException, msg |-> <<>>,
                       cmd |-> << <<"rsync">>, flags, src, dest >>,
                       prompt |-> <<>>]
         IN  IF is_remote_path(src)
             THEN IF ~keyfile /\ ~dry_run
                  THEN [exc |-> NoException, msg |-> <<>>,
                        cmd |-> << <<"sshpass">>, <<"-p">>, Password, <<"rsync">>,
                                   flags, src, dest >>,
                        prompt |-> <<host>>]
                  ELSE plain
             ELSE plain

\* subprocess.run(cmd, capture_output=True, text=True, check=True)
subprocess_run(cmd, sync_name) ==
    IF proc[sync_name] = "nospawn"
    THEN Raise("FileNotFoundError",
               <<"[Errno 2] No such file or directory: '">> \o cmd[1] \o <<"'">>)
         @@ [stdout |-> <<>>, stderr |-> <<>>]
    ELSE IF proc[sync_name] = "exit1"
    THEN Raise("CalledProcessError", <<"returned non-zero exit status 1">>)
         @@ [stdout |-> <<>>, stderr |-> StderrOf(sync_name)]
    ELSE [exc |-> NoException, msg |-> <<>>,
          stdout |-> StdoutOf(sync_name), stderr |-> <<>>]

\* an except clause that names ValueError instead of Exception
CaughtByExceptValueError(kind) == kind = "ValueError"

\* the classes "except Exception" catches
CaughtByExceptException(kind) ==
    kind \in {"ValueError", "KeyError", "TypeError", "AttributeError",
              "FileNotFoundError", "CalledProcessError"}

\* the except clauses of run_sync, for an exception of this kind
handle(sync_name, kind, message, stderr, built) ==
    IF kind = "CalledProcessError"
    THEN [raised |-> FALSE, success |-> FALSE,
          output |-> <<"rsync failed: ">> \o stderr] @@ built
    ELSE IF CaughtByExceptException(kind)
    THEN [raised |-> FALSE, success |-> FALSE,
          output |-> <<"Error running sync '">> \o sync_name \o <<"': ">> \o message]
         @@ built
    ELSE [raised |-> TRUE, success |-> FALSE, output |-> <<>>] @@ built

NotBuilt == [built |-> FALSE, cmd |-> <<>>, prompt |-> <<>>]

\* run_sync: (success, output), with the command it built and the host it
\* asked a password for
run_sync(sync_name) ==
    LET sc == get_sync_config(sync_name)
    IN  IF sc.exc # NoException
        THEN handle(sync_name, sc.exc, sc.msg, <<>>, NotBuilt)
        ELSE LET b == build_rsync_command(sc.val, sync_name, FALSE)
                 built == [built |-> b.exc = NoException, cmd |-> b.cmd,
                           prompt |-> b.prompt]
             IN  IF b.exc # NoException
                 THEN handle(sync_name, b.exc, b.msg, <<>>, built)
                 ELSE LET r == subprocess_run(b.cmd, sync_name)
                      IN  IF r.exc # NoException
                          THEN handle(sync_name, r.exc, r.msg, r.stderr, built)
                          ELSE [raised |-> FALSE, success |-> TRUE,
                                output |-> r.stdout] @@ built

\* the (success, output) tuple stored in results
ResultOf(res) == [success |-> res.success, output |-> res.output]

\* run_syncs, sequential branch: the results of running the names in order
RECURSIVE SequentialResults(_, _)
SequentialResults(sync_names, acc) ==
    IF sync_names = <<>> THEN acc
    ELSE LET sync_name == Head(sync_names)
             r == ResultOf(run_sync(sync_name))
         IN  SequentialResults(Tail(sync_names),
                 [n \in DOMAIN acc \cup {sync_name} |->
                     IF n = sync_name THEN r ELSE acc[n]])

\* run_syncs: whether the jobs run in threads
use_threads(sync_names, parallel) == parallel /\ Len(sync_names) > 1

\* the dry run of main: per name the line printed, the command or the error
dry_run_line(sync_name) ==
    LET sc == get_sync_config(sync_name)
    IN  IF sc.exc # NoException
        THEN [name |-> sync_name, ok |-> FALSE, line |-> <<"ERROR - ">> \o sc.msg]
             @@ NotBuilt
        ELSE LET b == build_rsync_command(sc.val, sync_name, TRUE)
             IN  IF b.exc # NoException
                 THEN [name |-> sync_name, ok |-> FALSE,
                       line |-> <<"ERROR - ">> \o b.msg] @@ NotBuilt
                 ELSE [name |-> sync_name, ok |-> TRUE,
                       line |-> Join(b.cmd, <<" ">>),
                       built |-> TRUE, cmd |-> b.cmd, prompt |-> b.prompt]

----------------------------------------------------------------------------
(* Inputs of the command line specification. *)

JobA == <<"a">>
JobB == <<"b">>
Refresh == <<"refresh">>

JobNames == {JobA, JobB}

\* job declarations: local to local, remote source, remote destination, a
\* source that a variable makes remote, and one without src
Declarations ==
    { [src |-> <<"/", "x">>, dest |-> <<"/", "y">>],
      [src |-> <<"h", ":", "x">>, dest |-> <<"/", "y">>],
      [src |-> <<"/", "x">>, dest |-> <<"h", ":", "y">>],
      [src |-> <<"$", "{", "v", "}", "x">>, dest |-> <<"~", "/", "y">>],
      [f \in {"dest"} |-> <<"/", "y">>] }

\* the sync mappings: "a" declared in any way or not at all, "b" local or not
\* declared
SyncSections ==
    LET with(jobs, n, d) == [k \in DOMAIN jobs \cup {n} |-> IF k = n THEN d ELSE jobs[k]]
        onlyA == {<<>>} \cup {with(<<>>, JobA, d) : d \in Declarations}
        both == onlyA \cup {with(j, JobB, [src |-> <<"/", "x">>, dest |-> <<"/", "y">>]) :
                               j \in onlyA}
    IN  {[null |-> FALSE,
          keys |-> (IF JobA \in DOMAIN j THEN <<JobA>> ELSE <<>>)
                   \o (IF JobB \in DOMAIN j THEN <<JobB>> ELSE <<>>),
          jobs |-> j] : j \in both}
    \cup {[null |-> TRUE, keys |-> <<>>, jobs |-> <<>>]}

\* variables:  - v = "h:"
VariablesSection == << <<"v", " ", "=", " ", "\"", "h", ":", "\"">> >>

Documents ==
    {[n \in {"variables"} |-> VariablesSection]}
    \cup {[n \in {"variables", "sync"} |->
              IF n = "sync" THEN sy ELSE VariablesSection] : sy \in SyncSections}
    \cup {[n \in {"sync", "config"} |->
              IF n = "sync" THEN sy ELSE [k \in {"rsync_flags"} |-> <<"-az">>]] :
              sy \in {x \in SyncSections : ~x.null /\ Len(x.keys) = 1}}

Files ==
    {[kind |-> k, doc |-> <<>>] : k \in {"notfound", "badyaml", "nondict"}}
    \cup {[kind |-> "doc", doc |-> d] : d \in Documents}

RECURSIVE NameLists(_)
NameLists(n) ==
    IF n = 0 THEN {<<>>}
    ELSE LET prev == NameLists(n - 1)
         IN  prev \cup {Append(l, x) : l \in prev, x \in JobNames}

ArgLists ==
    NameLists(MaxNames) \cup {<<Refresh>> \o l : l \in NameLists(MaxNames - 1)}

Outcomes == {"exit0", "exit1", "nospawn"}

NoResult == [raised |-> FALSE, success |-> FALSE, output |-> <<>>] @@ NotBuilt

RunnerIdle ==
    /\ file = [kind |-> "notfound", doc |-> <<>>]
    /\ args = [sync_names |-> <<>>, list |-> FALSE, no_parallel |-> FALSE,
               dry_run |-> FALSE]
    /\ keyfile = FALSE
    /\ proc = <<>>
    /\ pc = "idle" /\ idx = 0 /\ run_names = <<>> /\ mode = "none"
    /\ task = <<>> /\ results = <<>> /\ writes = {} /\ preview = <<>>
    /\ exitcode = 0

----------------------------------------------------------------------------
(* Inputs of the string specifications. *)

PathPieces ==
    {<<"/">>, <<"~">>, <<".">>, <<"a">>, <<":">>,
     <<"$", "{", "v", "}">>, <<"/", "~", "/">>}

Paths == Words(PathPieces, MaxPathPieces)

LocalPaths == {p \in Paths : ~Contains(p, <<":">>)}

TextPieces == {<<"$">>, <<"{">>, <<"}">>, <<"v">>, <<"$", "{", "v", "}">>}

Texts == Words(TextPieces, MaxTextPieces)

\* variable maps: v undefined, or defined with one of these values
VarValues ==
    {<<>>, <<"x">>, <<"$">>, <<"{">>, <<"}">>, <<"{", "v", "}">>,
     <<"$", "{", "v", "}">>, <<"~", "/", "a">>, <<"h", ":">>}

VarMaps == {<<>>} \cup {[n \in {<<"v">>} |-> val] : val \in VarValues}

NoConfig == [n \in {} |-> <<>>]

EmptyText == <<>>

----------------------------------------------------------------------------
(* SpecNormalize: the path expansion of get_sync_config applied to a local *)
(* path, and again to its own result.                                      *)

InitNormalize ==
    /\ RunnerIdle
    /\ path \in LocalPaths
    /\ nhist = <<>>
    /\ text = EmptyText /\ subst = [done |-> FALSE, out |-> <<>>]
    /\ config = NoConfig /\ variables = <<>>
    /\ resolved = [done |-> FALSE]

ExpandOnce ==
    /\ nhist = <<>>
    /\ nhist' = <<expand_path(path)>>
    /\ UNCHANGED <<path, text, subst, config, variables, resolved, runvars>>

ExpandAgain ==
    /\ Len(nhist) = 1
    /\ nhist' = Append(nhist, expand_path(nhist[1]))
    /\ UNCHANGED <<path, text, subst, config, variables, resolved, runvars>>

NextNormalize == ExpandOnce \/ ExpandAgain

SpecNormalize == InitNormalize /\ [][NextNormalize]_vars

----------------------------------------------------------------------------
(* SpecSubstitute: substitute_variables applied to a text. *)

InitSubstitute ==
    /\ RunnerIdle
    /\ text \in Texts
    /\ variables \in VarMaps
    /\ subst = [done |-> FALSE, out |-> <<>>]
    /\ path = <<>> /\ nhist = <<>>
    /\ config = NoConfig
    /\ resolved = [done |-> FALSE]

Substitute ==
    /\ ~subst.done
    /\ subst' = [done |-> TRUE, out |-> substitute_variables(text)]
    /\ UNCHANGED <<path, nhist, text, config, variables, resolved, runvars>>

NextSubstitute == Substitute

SpecSubstitute == InitSubstitute /\ [][NextSubstitute]_vars

----------------------------------------------------------------------------
(* SpecResolve: get_sync_config on a loaded configuration that declares    *)
(* the one job "a"; the name asked for is "a" or the undeclared "b".       *)

OtherFieldValues == {<<"h", ":", "~", "/", "$", "{", "v", "}">>}

JobDeclarations ==
    LET both(f, g) == {[n \in {f, g} |-> IF n = f THEN p ELSE q] :
                           p \in Paths, q \in OtherFieldValues}
        one(f) == {[n \in {f} |-> p] : p \in Paths}
    IN  both("src", "dest") \cup both("dest", "src") \cup one("src") \cup one("dest")

ResolveVarMaps ==
    {m \in VarMaps : m = <<>> \/ m[<<"v">>] \in {<<"~", "/", "a">>, <<"h", ":">>}}

ConfigOf(keys, jobs) ==
    [n \in {"sync"} |-> [null |-> FALSE, keys |-> keys, jobs |-> jobs]]

InitResolve ==
    /\ RunnerIdle
    /\ \E d \in JobDeclarations :
           config = ConfigOf(<< <<"a">> >>, [n \in {<<"a">>} |-> d])
    /\ variables \in ResolveVarMaps
    /\ resolved = [done |-> FALSE]
    /\ path = <<>> /\ nhist = <<>>
    /\ text = EmptyText /\ subst = [done |-> FALSE, out |-> <<>>]

Resolve(sync_name) ==
    /\ ~resolved.done
    /\ resolved' = [done |-> TRUE, name |-> sync_name, r |-> get_sync_config(sync_name)]
    /\ UNCHANGED <<path, nhist, text, subst, config, variables, runvars>>

NextResolve == \E n \in {<<"a">>, <<"b">>} : Resolve(n)

SpecResolve == InitResolve /\ [][NextResolve]_vars

----------------------------------------------------------------------------
(* Spec: main, from the parsed command line to the exit code, with the     *)
(* jobs run by run_syncs in worker threads or one after the other.         *)

Init ==
    /\ file \in Files
    /\ args \in [sync_names : ArgLists, list : BOOLEAN, no_parallel : BOOLEAN,
                 dry_run : BOOLEAN]
    /\ keyfile \in BOOLEAN
    /\ proc \in [JobNames -> Outcomes]
    /\ pc = "start" /\ idx = 0 /\ run_names = <<>> /\ mode = "none"
    /\ task = <<>> /\ results = <<>> /\ writes = {} /\ preview = <<>>
    /\ exitcode = 0
    /\ config = NoConfig /\ variables = <<>>
    /\ path = <<>> /\ nhist = <<>>
    /\ text = EmptyText /\ subst = [done |-> FALSE, out |-> <<>>]
    /\ resolved = [done |-> FALSE]

strings == <<path, nhist, text, subst, resolved>>

inputs == <<file, args, keyfile, proc>>

\* main returns code
Return(code) == pc' = "exit" /\ exitcode' = code

\* d[key] = value
Put(d, key, value) == [k \in DOMAIN d \cup {key} |-> IF k = key THEN value ELSE d[k]]

\* main: the refresh command, else ArsyncConfig(args.config)
LoadConfig ==
    /\ pc = "start"
    /\ IF args.sync_names # <<>> /\ args.sync_names[1] = Refresh
       THEN Return(0) /\ UNCHANGED <<config, variables>>
       ELSE LET l == load_config
            IN  IF l.exc # NoException
                THEN Return(1) /\ UNCHANGED <<config, variables>>
                ELSE /\ config' = l.config
                     /\ variables' = l.variables
                     /\ pc' = "loaded"
                     /\ UNCHANGED exitcode
    /\ UNCHANGED <<strings, inputs, idx, run_names, mode, task, results, writes, preview>>

\* main after the configuration is loaded: --list, the names to run, the
\* dry run, else the call of run_syncs
Dispatch ==
    /\ pc = "loaded"
    /\ LET named == args.sync_names # <<>>
           sync_names == IF named THEN args.sync_names ELSE list_syncs.val
           run == ~args.list /\ (named \/ list_syncs.exc = NoException)
                  /\ sync_names # <<>> /\ ~args.dry_run
       IN  /\ IF args.list
              THEN Return(IF list_syncs.exc # NoException THEN 1 ELSE 0)
              ELSE IF ~named /\ list_syncs.exc # NoException
              THEN Return(1)
              ELSE IF sync_names = <<>>
              THEN Return(1)
              ELSE IF args.dry_run
              THEN Return(0)
              ELSE /\ pc' = IF use_threads(sync_names, ~args.no_parallel)
                            THEN "start_threads" ELSE "serial_loop"
                   /\ UNCHANGED exitcode
           /\ preview' = IF ~args.list /\ (named \/ list_syncs.exc = NoException)
                            /\ sync_names # <<>> /\ args.dry_run
                         THEN [i \in 1..Len(sync_names) |-> dry_run_line(sync_names[i])]
                         ELSE preview
           /\ run_names' = IF run THEN sync_names ELSE run_names
           /\ mode' = IF ~run THEN mode
                      ELSE IF use_threads(sync_names, ~args.no_parallel)
                      THEN "threads" ELSE "serial"
           /\ task' = IF run
                      THEN [i \in 1..Len(sync_names) |-> [pc |-> "new", res |-> NoResult]]
                      ELSE task
           /\ idx' = IF run THEN 1 ELSE idx
    /\ UNCHANGED <<strings, inputs, config, variables, results, writes>>

\* a worker that reads the loop variable instead of its argument: every
\* thread sees the last name
thread_arg_loop_variable(i) == run_names[Len(run_names)]

\* threading.Thread(target=sync_worker, args=(sync_name,)): the name the
\* thread of position i is given
thread_arg(i) == run_names[i]

\* run_sync_parallel, first loop: start the thread of the next name
StartThread ==
    /\ pc = "start_threads"
    /\ task' = [task EXCEPT ![idx].pc = "run"]
    /\ IF idx = Len(run_names)
       THEN pc' = "join" /\ idx' = 1
       ELSE pc' = pc /\ idx' = idx + 1
    /\ UNCHANGED <<strings, inputs, config, variables, run_names, mode, results,
                   writes, preview, exitcode>>

\* sync_worker, first statement: run_sync(sync_name); an exception that
\* run_sync lets through ends the thread
WorkerRun(i) ==
    /\ mode = "threads" /\ task[i].pc = "run"
    /\ LET res == run_sync(thread_arg(i))
       IN  task' = [task EXCEPT ![i] = [pc |-> IF res.raised THEN "done" ELSE "store",
                                        res |-> res]]
    /\ UNCHANGED <<strings, inputs, config, variables, pc, idx, run_names, mode,
                   results, writes, preview, exitcode>>

\* sync_worker, second statement: results[sync_name] = (success, output)
WorkerStore(i) ==
    /\ mode = "threads" /\ task[i].pc = "store"
    /\ results' = Put(results, thread_arg(i), ResultOf(task[i].res))
    /\ writes' = writes \cup {<<i, thread_arg(i)>>}
    /\ task' = [task EXCEPT ![i].pc = "done"]
    /\ UNCHANGED <<strings, inputs, config, variables, pc, idx, run_names, mode,
                   preview, exitcode>>

\* a join that does not wait (join(timeout=0))
thread_ended_no_wait(i) == TRUE

\* thread.join() returns once the thread has ended
thread_ended(i) == task[i].pc = "done"

\* run_sync_parallel, second loop: join the next thread; return results
JoinThread ==
    /\ pc = "join"
    /\ thread_ended(idx)
    /\ IF idx = Len(run_names)
       THEN pc' = "report" /\ idx' = idx
       ELSE pc' = pc /\ idx' = idx + 1
    /\ UNCHANGED <<strings, inputs, config, variables, run_names, mode, task,
                   results, writes, preview, exitcode>>

\* run_syncs, sequential branch: one iteration of the loop; an exception
\* that run_sync lets through reaches the except clause of main
SerialStep ==
    /\ pc = "serial_loop"
    /\ LET sync_name == run_names[idx]
           res == run_sync(sync_name)
       IN  IF res.raised
           THEN /\ Return(1)
                /\ task' = [task EXCEPT ![idx] = [pc |-> "raised", res |-> res]]
                /\ UNCHANGED <<results, writes, idx>>
           ELSE /\ results' = Put(results, sync_name, ResultOf(res))
                /\ writes' = writes \cup {<<idx, sync_name>>}
                /\ task' = [task EXCEPT ![idx] = [pc |-> "done", res |-> res]]
                /\ IF idx = Len(run_names)
                   THEN pc' = "report" /\ idx' = idx
                   ELSE pc' = pc /\ idx' = idx + 1
                /\ UNCHANGED exitcode
    /\ UNCHANGED <<strings, inputs, config, variables, run_names, mode, preview>>

\* the report returning 0 as soon as one entry of results is a success
report_exit_code_any_success ==
    LET success_count == Cardinality({k \in DOMAIN results : results[k].success})
    IN  IF success_count > 0 THEN 0 ELSE 1

\* main, the report: 0 when every entry of results is a success
report_exit_code ==
    LET success_count == Cardinality({k \in DOMAIN results : results[k].success})
    IN  IF success_count = Cardinality(DOMAIN results) THEN 0 ELSE 1

Report ==
    /\ pc = "report"
    /\ Return(report_exit_code)
    /\ UNCHANGED <<strings, inputs, config, variables, idx, run_names, mode, task,
                   results, writes, preview>>

Next ==
    \/ LoadConfig
    \/ Dispatch
    \/ StartThread
    \/ \E i \in DOMAIN task : WorkerRun(i)
    \/ \E i \in DOMAIN task : WorkerStore(i)
    \/ JoinThread
    \/ SerialStep
    \/ Report

Spec == Init /\ [][Next]_vars

----------------------------------------------------------------------------
(* Claims about the string functions. *)

\* s holds a token ${NAME} from index i to index j (NAME: one or more
\* symbols other than "}")
IsTokenAt(s, i, j) ==
    /\ i + 3 <= j /\ j <= Len(s)
    /\ s[i] = "$" /\ s[i + 1] = "{" /\ s[j] = "}"
    /\ \A k \in (i + 2)..(j - 1) : s[k] # "}"

TokenNames(s) ==
    {SubSeq(s, i + 2, j - 1) : <<i, j>> \in
        {x \in (1..Len(s)) \X (1..Len(s)) : IsTokenAt(s, x[1], x[2])}}

HasColon(s) == \E i \in 1..Len(s) : s[i] = ":"

RawJob == config["sync"].jobs[<<"a">>]

\* C8: for src and for dest, get_sync_config returns
\* substitute(normalize(raw)) when the raw value holds no ":" and
\* substitute(raw) when it holds one; a field the job does not declare is
\* not in the result.
C8_NormalizeThenSubstitute ==
    (resolved.done /\ resolved.name = <<"a">>) =>
        /\ resolved.r.exc = NoException
        /\ DOMAIN resolved.r.val = DOMAIN RawJob
        /\ \A f \in DOMAIN RawJob :
               resolved.r.val[f] =
                   IF HasColon(RawJob[f])
                   THEN substitute_variables(RawJob[f])
                   ELSE substitute_variables(expand_path(RawJob[f]))

\* a local path whose variable is replaced by text that normalization would
\* change, and a remote one, were both resolved
C8_Witness ==
    /\ resolved.done /\ resolved.name = <<"a">>
    /\ variables # <<>> /\ variables[<<"v">>] = <<"~", "/", "a">>
    /\ "src" \in DOMAIN RawJob /\ "dest" \in DOMAIN RawJob
    /\ RawJob["src"] = <<"$", "{", "v", "}">>
    /\ HasColon(RawJob["dest"])
    /\ resolved.r.val["src"] = <<"/", "w", "/", "~", "/", "a">>
    /\ resolved.r.val["dest"] = <<"h", ":", "~", "/", "~", "/", "a">>

\* C9: the path expansion is idempotent on local paths:
\* normalize(normalize(p)) = normalize(p).
C9_NormalizeIdempotent ==
    Len(nhist) = 2 => nhist[2] = nhist[1]

\* C10 as stated: when every token of the text has a key, the result holds
\* no token; a text without tokens is returned unchanged.
C10_NoTokenLeft ==
    subst.done =>
        /\ TokenNames(text) \subseteq DOMAIN variables => TokenNames(subst.out) = {}
        /\ TokenNames(text) = {} => subst.out = text

\* a value that cannot complete or start a token where it is inserted
CleanValue(val) == val # <<>> /\ \A i \in 1..Len(val) : val[i] \notin {"$", "{"}

\* C10 amended: when every token of the text has a key and every value is
\* non-empty and holds neither "$" nor "{", the result holds no token; a
\* text without tokens is returned unchanged; and a value is inserted as it
\* is, tokens included (one pass, no re-scan).
C10_NoTokenLeftForCleanValues ==
    subst.done =>
        /\ ( /\ TokenNames(text) \subseteq DOMAIN variables
             /\ \A n \in DOMAIN variables : CleanValue(variables[n]) )
           => TokenNames(subst.out) = {}
        /\ TokenNames(text) = {} => subst.out = text
        /\ (text = <<"$", "{", "v", "}">> /\ <<"v">> \in DOMAIN variables)
           => subst.out = variables[<<"v">>]

\* a text with tokens around literal "$", "{" and "}" was substituted
C10_Witness ==
    /\ subst.done
    /\ Cardinality(TokenNames(text)) = 1
    /\ TokenNames(text) \subseteq DOMAIN variables
    /\ \A n \in DOMAIN variables : CleanValue(variables[n])
    /\ \E i \in 1..Len(text) : text[i] = "$" /\ (i = Len(text) \/ text[i + 1] # "{")
    /\ subst.out # text
    /\ TokenNames(subst.out) = {}

----------------------------------------------------------------------------
(* Claims about run_syncs, run_sync, build_rsync_command and main. *)

\* run_syncs has returned its results to main
Returned == pc = "report" \/ (pc = "exit" /\ mode # "none")

Requested == {run_names[i] : i \in 1..Len(run_names)}

\* the job is declared with a src and a dest, so that a command is built
Runnable(sync_name) ==
    /\ ~config["sync"].null
    /\ sync_name \in DOMAIN config["sync"].jobs
    /\ {"src", "dest"} \subseteq DOMAIN config["sync"].jobs[sync_name]

\* C1: the results run_syncs returns hold exactly one entry per requested
\* name: the keys are the requested names, and there are as many entries as
\* names were requested.
C1_OneEntryPerRequestedName ==
    Returned =>
        /\ DOMAIN results = Requested
        /\ Cardinality(DOMAIN results) = Len(run_names)

\* C2: when run_syncs returns, the run of every requested job has completed
\* and its result is stored, whatever the outcome of the other jobs.
C2_AllCompleteBeforeReturn ==
    Returned =>
        \A i \in 1..Len(run_names) :
            /\ task[i].pc = "done"
            /\ run_names[i] \in DOMAIN results

\* threads were joined after a job failed and a later one succeeded
C2_Witness ==
    /\ pc = "report" /\ mode = "threads"
    /\ \E i, j \in 1..Len(run_names) :
           /\ i < j
           /\ task[i].pc = "done" /\ ~task[i].res.success
           /\ task[j].pc = "done" /\ task[j].res.success

\* C3: in parallel mode each worker writes results only at its own job name,
\* and no key of results is written twice.
C3_DisjointWrites ==
    mode = "threads" =>
        /\ \A w \in writes : w[2] = run_names[w[1]]
        /\ \A w1, w2 \in writes : w1[2] = w2[2] => w1 = w2

\* C4: run_sync never raises; success is true exactly when the process was
\* spawned and exited with status zero, with the captured stdout as output;
\* a non-zero exit gives "rsync failed: " + stderr; every other failure
\* gives "Error running sync '<name>': " + message.
C4_RunSyncNeverRaises ==
    \A i \in DOMAIN task :
        task[i].pc \in {"store", "done", "raised"} =>
            LET sync_name == run_names[i]
                res == task[i].res
                spawned == Runnable(sync_name) /\ proc[sync_name] # "nospawn"
            IN  /\ ~res.raised
                /\ res.success <=> (spawned /\ proc[sync_name] = "exit0")
                /\ res.success => res.output = StdoutOf(sync_name)
                /\ (spawned /\ proc[sync_name] = "exit1") =>
                       res.output = <<"rsync failed: ">> \o StderrOf(sync_name)
                /\ ~spawned =>
                       LET prefix == <<"Error running sync '">> \o sync_name \o <<"': ">>
                       IN  StartsWith(res.output, prefix) /\ Len(res.output) > Len(prefix)

\* one job failed for its missing src and another for its exit status
C4_Witness ==
    \E i, j \in DOMAIN task :
        /\ task[i].pc = "done" /\ task[j].pc = "done"
        /\ task[i].res.output
               = <<"Error running sync '">> \o run_names[i] \o <<"': ", "'src'">>
        /\ task[j].res.output = <<"rsync failed: ">> \o StderrOf(run_names[j])

\* every command built so far: by run_sync (dry_run false) and by the dry
\* run of main (dry_run true)
Builds ==
    {[name |-> run_names[i], dry_run |-> FALSE, cmd |-> task[i].res.cmd,
      prompt |-> task[i].res.prompt] :
         i \in {k \in DOMAIN task : task[k].res.built}}
    \cup
    {[name |-> preview[i].name, dry_run |-> TRUE, cmd |-> preview[i].cmd,
      prompt |-> preview[i].prompt] :
         i \in {k \in DOMAIN preview : preview[k].built}}

FirstColon(s) == CHOOSE i \in 1..Len(s) : s[i] = ":" /\ \A k \in 1..(i - 1) : s[k] # ":"

\* C5: build_rsync_command asks for a password (for the host of src) and
\* returns the sshpass command exactly when the resolved src holds a ":",
\* it is no dry run and the key file does not exist; otherwise it returns
\* the plain rsync command and asks nothing.
C5_PromptOnlyWhenNeeded ==
    /\ \A i \in DOMAIN task :
           (task[i].pc \in {"store", "done"} /\ Runnable(run_names[i]))
               => task[i].res.built
    /\ \A i \in DOMAIN preview : Runnable(preview[i].name) => preview[i].built
    /\ \A b \in Builds :
           LET sc == get_sync_config(b.name).val
               flags == IF "config" \in DOMAIN file.doc
                        THEN file.doc["config"]["rsync_flags"] ELSE <<"-avPh">>
               need == HasColon(sc["src"]) /\ ~b.dry_run /\ ~keyfile
           IN  IF need
               THEN /\ b.prompt = <<SubSeq(sc["src"], 1, FirstColon(sc["src"]) - 1)>>
                    /\ b.cmd = << <<"sshpass">>, <<"-p">>, Password, <<"rsync">>,
                                  flags, sc["src"], sc["dest"] >>
               ELSE /\ b.prompt = <<>>
                    /\ b.cmd = << <<"rsync">>, flags, sc["src"], sc["dest"] >>

\* a dry run built the plain command for a remote src without a key file
C5_Witness ==
    /\ pc = "exit" /\ args.dry_run /\ ~keyfile
    /\ \E i \in DOMAIN preview :
           /\ preview[i].built /\ preview[i].prompt = <<>>
           /\ Len(preview[i].cmd) = 4
           /\ HasColon(preview[i].cmd[3])

\* C6: the results of the parallel run equal the results of running the same
\* names one after the other (and so does the stepwise sequential run).
C6_ParallelEqualsSequential ==
    Returned =>
        /\ DOMAIN results = DOMAIN SequentialResults(run_names, <<>>)
        /\ \A k \in DOMAIN results : results[k] = SequentialResults(run_names, <<>>)[k]

\* two threads delivered different results for two names
C6_Witness ==
    /\ pc = "report" /\ mode = "threads"
    /\ DOMAIN results = {JobA, JobB}
    /\ results[JobA].success /\ ~results[JobB].success

RefreshFirst == args.sync_names # <<>> /\ args.sync_names[1] = Refresh

LoadFails == file.kind # "doc" \/ "sync" \notin DOMAIN file.doc

NoJobsConfigured == file.doc["sync"].null \/ file.doc["sync"].keys = <<>>

SomeJobFailed == \E i \in DOMAIN task : task[i].pc = "done" /\ ~task[i].res.success

AllJobsSucceeded == \A i \in DOMAIN task : task[i].pc = "done" /\ task[i].res.success

\* C7 as stated, read in the order that favours it (refresh first, then
\* the load, then the flags): 0 on refresh; 1 if loading raises; 0 on --list
\* and on --dry-run whatever the sync section holds; else 1 if no jobs are
\* configured or a job fails, and 0 on full success.
C7_ExitCodeAsStated ==
    pc = "exit" =>
        /\ RefreshFirst => exitcode = 0
        /\ (~RefreshFirst /\ LoadFails) => exitcode = 1
        /\ (~RefreshFirst /\ ~LoadFails /\ (args.list \/ args.dry_run)) => exitcode = 0
        /\ (~RefreshFirst /\ ~LoadFails /\ ~args.list /\ ~args.dry_run) =>
               /\ (args.sync_names = <<>> /\ NoJobsConfigured) => exitcode = 1
               /\ SomeJobFailed => exitcode = 1
               /\ (mode # "none" /\ AllJobsSucceeded) => exitcode = 0

\* C7 amended: the cases in the order main decides them: refresh gives 0;
\* else a failing load gives 1; else --list gives 0 (1 when the sync section
\* is null); else no name requested and no job configured gives 1; else
\* --dry-run gives 0; else 0 exactly when every requested job succeeded.
C7_ExitCodeInOrder ==
    pc = "exit" =>
        exitcode =
            IF RefreshFirst THEN 0
            ELSE IF LoadFails THEN 1
            ELSE IF args.list THEN (IF file.doc["sync"].null THEN 1 ELSE 0)
            ELSE IF args.sync_names = <<>> /\ NoJobsConfigured THEN 1
            ELSE IF args.dry_run THEN 0
            ELSE IF AllJobsSucceeded THEN 0 ELSE 1

\* a dry run without names against a configuration whose sync section is an
\* empty mapping ended with 1
C7_Witness ==
    /\ pc = "exit" /\ exitcode = 1
    /\ args.dry_run /\ ~args.list /\ args.sync_names = <<>>
    /\ ~LoadFails /\ ~file.doc["sync"].null /\ file.doc["sync"].keys = <<>>

====
